---- MODULE Spec2Model ----
(***************************************************************************)
(* A model of the xsynth-clib foreign-function facade: the channel-group   *)
(* and soundfont registries with their id allocators (src/src/lib.rs,      *)
(* src/src/soundfont.rs), the event decoder (src/src/utils.rs) and the     *)
(* pointer-handle real-time synth (src/src/realtime.rs,                    *)
(* src/src/handles.rs).                                                    *)
(***************************************************************************)
EXTENDS Integers, Sequences, FiniteSets, TLC

\* ------------------------------------------------------------------ bounds
\* c_ulong::MAX (lib.rs:34), scaled down: the largest id counter value of the
\* channel-group registry.
C_ULONG_MAX == 3
\* MAX_ITEMS of consts.rs (soundfont.rs:19), scaled down.
MAX_ITEMS == 3
\* Identifiers a caller may pass: 0..MaxArg covers live, removed and never
\* issued ids.
MaxArg == 3
\* Events a group's queue holds before the engine takes them.
MaxQueue == 1
\* The same under SpecFlow, where the order in a queue matters.
MaxFifo == 2
\* Groups and soundfonts created in all under SpecFacade.
MaxGroups == 1
MaxSoundfonts == 2
\* An event kind outside the defined ones.
UnknownEvent == 10
\* Threads that call XSynth_Soundfont_LoadNew at the same time under SpecConc.
NumThreads == 2
Threads == 1..NumThreads
\* Heap addresses a Box<RealtimeSynth> can lie at under SpecRT; 0 is the null pointer.
NumAddrs == 2
Addrs == 1..NumAddrs
NULL == 0
\* How often the model lets one freed box be freed again.
MaxDrops == 3
\* Heap addresses an Arc<dyn SoundfontBase> can lie at.
NumSfAddrs == 3
SfAddrs == 1..NumSfAddrs

VARIABLES
    GROUPS,              \* lib.rs:22   Vec<XSynthGroup>: sequence of [id, queue, soundfonts, sent];
                         \* queue and soundfonts are the ChannelGroup's pending events and the
                         \* soundfonts it plays with; sent is history: the events the calls
                         \* made since the engine last took the queue
    ID_COUNTER,          \* lib.rs:30   id counter of the group registry
    SOUNDFONTS,          \* lib.rs:28   Vec<Soundfont>: sequence of [id, soundfont]; soundfont is
                         \* the address of the Arc
    arcs,                \* the heap of Arc<dyn SoundfontBase>: arcs[a] is the strong count of the
                         \* soundfont at address a, 0 when nothing is allocated there
    soundfont_ID_COUNTER,\* soundfont.rs:15 id counter of the soundfont registry
    op,                  \* the last facade call: <<name, arguments...>>
    result,              \* what the last call gave back: <<"ok", value>> or <<"panic", message>>
    aborted,             \* TRUE once a panic has left an extern "C" function
    dropped,             \* the entries the last call took out of its table (and dropped)
    fresh,               \* history: fresh[r] while neither Remove nor RemoveAll was called on
                         \* registry r ("groups", "soundfonts")
    pc,                  \* pc[t]: where thread t stands in the call it makes
    local,               \* local[t]: the locals of thread t: `id` and `i` of next_id; the
                         \* handle of a SendEvent; handle, ids and sfvec of a SetSoundfonts
    ret,                 \* ret[t]: what the call of thread t returned (-1: nothing yet)
    start,               \* history: the counter, the table length and the ids of the table
                         \* when the first thread called, and how many thread calls took
                         \* their id from the counter
    synths,              \* the heap of Box<RealtimeSynth>: synths[a] is what lies at address a
    held,                \* the handles XSynth_Realtime_Create has given the caller so far
    taken,               \* the events the engine took from a queue in the last step, in the
                         \* order it took them
    seen                 \* history: seen[t] is the set of tables SOUNDFONTS has held since
                         \* thread t began to resolve the id list of its SetSoundfonts call

callVars == <<op, result, aborted, dropped>>
threadVars == <<pc, local, ret, start>>
rtVars == <<synths, held>>
vars == <<GROUPS, ID_COUNTER, SOUNDFONTS, soundfont_ID_COUNTER, arcs, callVars, fresh,
          threadVars, rtVars, taken, seen>>

\* ----------------------------------------------------------------- helpers
Min(S) == CHOOSE x \in S : \A y \in S : x <= y

Ids(table) == {table[k].id : k \in 1..Len(table)}

\* Retain with its predicate inverted: the fault C7 has to notice.
Retain_inverted(table, id) == SelectSeq(table, LAMBDA e : e.id = id)

\* Vec::retain(|e| e.id != id)
Retain(table, id) == SelectSeq(table, LAMBDA e : e.id # id)

\* clear() that leaves the first entry in the table: the fault C25 has to
\* notice.
Vec_clear_all_but_first(table) == IF table = <<>> THEN <<>> ELSE <<Head(table)>>

\* Vec::clear(): the table afterwards
Vec_clear(table) == <<>>

Ok(v) == <<"ok", v>>
Panic(msg) == <<"panic", msg>>

\* ------------------------------------------- Arc<dyn SoundfontBase>
Count(seq, x) == Cardinality({j \in 1..Len(seq) : seq[j] = x})

\* Arc::new: the allocator hands out an address nothing is allocated at
Arc_alloc(heap) == Min({a \in SfAddrs : heap[a] = 0})
Arc_new(heap) == [heap EXCEPT ![Arc_alloc(heap)] = 1]

\* Arc::clone of every element of refs, a sequence of addresses
Arc_clone(heap, refs) == [a \in SfAddrs |-> heap[a] + Count(refs, a)]

\* Drop of an Arc that frees the soundfont at once, whoever else holds it: the
\* fault C14 has to notice.
Arc_drop_frees(heap, refs) == [a \in SfAddrs |-> IF Count(refs, a) > 0 THEN 0 ELSE heap[a]]

\* Drop of every element of refs: the strong count goes down by one for each;
\* the soundfont is freed when the count reaches 0.
Arc_drop(heap, refs) == [a \in SfAddrs |-> heap[a] - Count(refs, a)]

\* The soundfonts an event holds: those of a SetSoundfonts configuration event.
EventRefs(ev) ==
    IF ev[1] = "ChannelConfig" /\ ev[2][1] = "SetSoundfonts" THEN ev[2][2] ELSE <<>>

RECURSIVE QueueRefs(_)
QueueRefs(queue) ==
    IF queue = <<>> THEN <<>> ELSE EventRefs(Head(queue)) \o QueueRefs(Tail(queue))

\* What a ChannelGroup or RealtimeSynth holds: its pending events and the
\* soundfonts it plays with.
HeldRefs(r) == QueueRefs(r.queue) \o r.soundfonts

RECURSIVE TableRefs(_)
TableRefs(table) ==
    IF table = <<>> THEN <<>> ELSE HeldRefs(Head(table)) \o TableRefs(Tail(table))

SoundfontRefs(table) == [k \in 1..Len(table) |-> table[k].soundfont]

\* ------------------------------------------------------ lib.rs: next_id
\* next_id with the capacity test `>` in place of `>=`: the fault C3 has to notice.
next_id_late_capacity(groups, counter) ==
    IF Len(groups) > C_ULONG_MAX
    THEN [ret |-> Panic("Max number of groups reached, cannot create more."),
          counter |-> counter]
    ELSE IF counter >= C_ULONG_MAX
    THEN LET free == {i \in 0..(Len(groups) - 1) : i \notin Ids(groups)}
         IN  [ret |-> Ok(IF free # {} THEN Min(free) ELSE 0), counter |-> counter]
    ELSE [ret |-> Ok(counter), counter |-> counter + 1]

next_id(groups, counter) ==
    IF Len(groups) >= C_ULONG_MAX
    THEN [ret |-> Panic("Max number of groups reached, cannot create more."),
          counter |-> counter]
    ELSE IF counter >= C_ULONG_MAX
    THEN \* for i in 0..GROUPS.len(): the first i no group holds; falls through to 0
         LET free == {i \in 0..(Len(groups) - 1) : i \notin Ids(groups)}
         IN  [ret |-> Ok(IF free # {} THEN Min(free) ELSE 0), counter |-> counter]
    ELSE [ret |-> Ok(counter), counter |-> counter + 1]

\* ------------------------------------------------ soundfont.rs: next_id
\* next_id with the counter incremented before it is taken: the fault C4 has
\* to notice.
soundfont_next_id_preincrement(soundfonts, counter) ==
    IF Len(soundfonts) >= MAX_ITEMS
    THEN [ret |-> <<"err", "()">>, counter |-> counter]
    ELSE IF counter >= MAX_ITEMS
    THEN LET free == {i \in 0..(MAX_ITEMS - 1) : i \notin Ids(soundfonts)}
         IN  IF free # {}
             THEN [ret |-> Ok(Min(free)), counter |-> counter]
             ELSE [ret |-> <<"err", "()">>, counter |-> counter]
    ELSE [ret |-> Ok(counter + 1), counter |-> counter + 1]

\* next_id that hands out 0 once the counter is saturated, without a scan: the
\* fault C5 has to notice.
soundfont_next_id_no_scan(soundfonts, counter) ==
    IF Len(soundfonts) >= MAX_ITEMS
    THEN [ret |-> <<"err", "()">>, counter |-> counter]
    ELSE IF counter >= MAX_ITEMS
    THEN [ret |-> Ok(0), counter |-> counter]
    ELSE [ret |-> Ok(counter), counter |-> counter + 1]

\* next_id that sets the counter to the identifier it recycled: the fault C24
\* has to notice.
soundfont_next_id_counter_recycled(soundfonts, counter) ==
    IF Len(soundfonts) >= MAX_ITEMS
    THEN [ret |-> <<"err", "()">>, counter |-> counter]
    ELSE IF counter >= MAX_ITEMS
    THEN LET free == {i \in 0..(MAX_ITEMS - 1) : i \notin Ids(soundfonts)}
         IN  IF free # {}
             THEN [ret |-> Ok(Min(free)), counter |-> Min(free)]
             ELSE [ret |-> <<"err", "()">>, counter |-> counter]
    ELSE [ret |-> Ok(counter), counter |-> counter + 1]

soundfont_next_id(soundfonts, counter) ==
    IF Len(soundfonts) >= MAX_ITEMS
    THEN [ret |-> <<"err", "()">>, counter |-> counter]
    ELSE IF counter >= MAX_ITEMS
    THEN LET free == {i \in 0..(MAX_ITEMS - 1) : i \notin Ids(soundfonts)}
         IN  IF free # {}
             THEN [ret |-> Ok(Min(free)), counter |-> counter]
             ELSE [ret |-> <<"err", "()">>, counter |-> counter]
    ELSE [ret |-> Ok(counter), counter |-> counter + 1]

\* ------------------------------------------ consts.rs: the event kinds
MIDI_EVENT_NOTEON == 0
MIDI_EVENT_NOTEOFF == 1
MIDI_EVENT_ALLNOTESOFF == 2
MIDI_EVENT_ALLNOTESKILLED == 3
MIDI_EVENT_RESETCONTROL == 4
MIDI_EVENT_CONTROL == 5
MIDI_EVENT_PROGRAMCHANGE == 6
MIDI_EVENT_PITCH == 7
MIDI_EVENT_FINETUNE == 8
MIDI_EVENT_COARSETUNE == 9

\* The event kinds of the data model.
DefinedEvents == MIDI_EVENT_NOTEON..MIDI_EVENT_COARSETUNE

\* `x >> 7` where `x >> 8` is meant: the fault C16 has to notice.
Shr7(x) == x \div 128

\* `x as u8`, `x & 255`, `x >> 8`
AsU8(x) == x % 256
LoByte(x) == x % 256
Shr8(x) == x \div 256

\* clamp that forgets the upper end: the fault C19 has to notice.
Clamp_below_only(x, lo, hi) == IF x < lo THEN lo ELSE x

Clamp(x, lo, hi) == IF x < lo THEN lo ELSE IF x > hi THEN hi ELSE x

\* --------------------- lib.rs: the match of XSynth_ChannelGroup_SendEvent
\* <<"return">> stands for the `_ => return` arm.
ChannelGroup_match_event(event, params) ==
    CASE event = MIDI_EVENT_NOTEON -> <<"NoteOn", AsU8(LoByte(params)), AsU8(Shr8(params))>>
      [] event = MIDI_EVENT_NOTEOFF -> <<"NoteOff", AsU8(LoByte(params))>>
      [] event = MIDI_EVENT_ALLNOTESKILLED -> <<"AllNotesKilled">>
      [] event = MIDI_EVENT_ALLNOTESOFF -> <<"AllNotesOff">>
      [] event = MIDI_EVENT_RESETCONTROL -> <<"ResetControl">>
      [] event = MIDI_EVENT_PROGRAMCHANGE -> <<"ProgramChange", AsU8(LoByte(params))>>
      [] event = MIDI_EVENT_CONTROL ->
             <<"Control", "Raw", AsU8(LoByte(params)), AsU8(Shr8(params))>>
      [] event = MIDI_EVENT_PITCH -> <<"Control", "PitchBend", params>>
      [] OTHER -> <<"return">>

\* ------------------------------------------------ utils.rs: convert_event
\* Floats are kept as exact numerators: PitchBendValue over 8192, FineTune
\* (in cents) over 4096.  <<"panic", ...>> stands for the `_ => panic!` arm.
convert_event(channel, event, params) ==
    LET ev ==
        CASE event = MIDI_EVENT_NOTEON ->
                 <<"NoteOn", AsU8(LoByte(params)), AsU8(Shr8(params))>>
          [] event = MIDI_EVENT_NOTEOFF -> <<"NoteOff", AsU8(LoByte(params))>>
          [] event = MIDI_EVENT_ALLNOTESKILLED -> <<"AllNotesKilled">>
          [] event = MIDI_EVENT_ALLNOTESOFF -> <<"AllNotesOff">>
          [] event = MIDI_EVENT_RESETCONTROL -> <<"ResetControl">>
          [] event = MIDI_EVENT_PROGRAMCHANGE ->
                 <<"ProgramChange", Clamp(AsU8(LoByte(params)), 0, 127)>>
          [] event = MIDI_EVENT_CONTROL ->
                 <<"Control", "Raw", Clamp(AsU8(LoByte(params)), 0, 127),
                   Clamp(AsU8(Shr8(params)), 0, 127)>>
          [] event = MIDI_EVENT_PITCH ->
                 <<"Control", "PitchBendValue", Clamp(params, 0, 16384) - 8192>>
          [] event = MIDI_EVENT_FINETUNE ->
                 <<"Control", "FineTune", (Clamp(params, 0, 8192) - 4096) * 100>>
          [] event = MIDI_EVENT_COARSETUNE ->
                 <<"Control", "CoarseTune", Clamp(params, 0, 128) - 64>>
          [] OTHER -> Panic("Unexpected MIDI event.")
    IN  IF ev[1] = "panic" THEN ev ELSE <<"Channel", channel, ev>>

\* utils.rs: convert_layer_count, and the same match in lib.rs
convert_layer_count(layers) == IF layers = 0 THEN <<"None">> ELSE <<"Some", layers>>

\* xsynth_core: ChannelCount, and what u16::into() makes of a channel count.
\* 1 and 2 are the supported counts (lib.rs:56); for any other count the
\* conversion, which returns a ChannelCount and nothing else, either panics or
\* yields one of the two.
ChannelCount_from(count) ==
    CASE count = 1 -> {Ok("Mono")}
      [] count = 2 -> {Ok("Stereo")}
      [] OTHER -> {Panic("unsupported channel count"), Ok("Mono"), Ok("Stereo")}

\* ChannelCount::count()
ChannelCount_count(channels) == IF channels = "Mono" THEN 1 ELSE 2

\* utils.rs:10-12, with the ChannelCount that into() gave
convert_streamparams_to_rust(params, channels) ==
    [sample_rate |-> params.sample_rate, channels |-> channels]

\* utils.rs:14-19
convert_streamparams_to_c(params) ==
    [sample_rate |-> params.sample_rate, audio_channels |-> ChannelCount_count(params.channels)]

\* lib.rs:105-114: the options XSynth_GenDefault_GroupOptions returns, as far
\* as XSynth_ChannelGroup_Create looks at them: channels, the drum_channels
\* array, stream_params.audio_channels.
XSynth_GenDefault_GroupOptions ==
    [channels |-> 16, drum_channels |-> <<9>>, audio_channels |-> 2]

\* History: the table SOUNDFONTS holds from now on is one more that every
\* thread now resolving an id list has lived through.
Seen(table) == [t \in Threads |-> IF pc[t] = "resolve" THEN seen[t] \cup {table} ELSE seen[t]]

\* -------------------------------------------------------------------- Init
Init ==
    /\ GROUPS = <<>>
    /\ ID_COUNTER = 0
    /\ SOUNDFONTS = <<>>
    /\ soundfont_ID_COUNTER = 0
    /\ op = <<"none">>
    /\ result = Ok(0)
    /\ aborted = FALSE
    /\ dropped = <<>>
    /\ fresh = [r \in {"groups", "soundfonts"} |-> TRUE]
    /\ pc = [t \in Threads |-> "idle"]
    /\ local = [t \in Threads |-> [id |-> 0, i |-> 0]]
    /\ ret = [t \in Threads |-> -1]
    /\ start = [called |-> FALSE, counter |-> 0, len |-> 0, byCounter |-> 0, ids |-> <<>>]
    /\ synths = [a \in Addrs |-> [live |-> FALSE, queue |-> <<>>, soundfonts |-> <<>>,
                                  sent |-> <<>>, drops |-> 0]]
    /\ held = {}
    /\ arcs = [a \in SfAddrs |-> 0]
    /\ taken = <<>>
    /\ seen = [t \in Threads |-> {}]

\* The bookkeeping of one facade call: what was called, what it gave back,
\* whether it panicked out of the extern "C" function (the process is gone),
\* and which entries it dropped.
Returns(call, r, d) ==
    /\ op' = call
    /\ result' = r
    /\ aborted' = (r[1] = "panic")
    /\ dropped' = d

\* ------------------------------------------- lib.rs: channel-group registry
\* options: the XSynth_GroupOptions of the call; built: ChannelGroup::new of
\* xsynth_core returns the group (it returns a ChannelGroup, so its only way
\* to fail is a panic).  The options go into the config as they are
\* (lib.rs:143-149); the channel count of the stream parameters goes through
\* into() first.
XSynth_ChannelGroup_Create(options, built) ==
    /\ ~aborted
    /\ LET call == <<"XSynth_ChannelGroup_Create", options, built>>
           n == next_id(GROUPS, ID_COUNTER)
       IN  \E into \in ChannelCount_from(options.audio_channels) :
               IF into[1] = "panic"
               THEN Returns(call, into, <<>>) /\ UNCHANGED <<GROUPS, ID_COUNTER>>
               ELSE IF ~built
               THEN Returns(call, Panic("ChannelGroup::new"), <<>>)
                    /\ UNCHANGED <<GROUPS, ID_COUNTER>>
               ELSE /\ Returns(call, n.ret, <<>>)
                    /\ ID_COUNTER' = n.counter
                    /\ GROUPS' = IF n.ret[1] = "ok"
                                 THEN Append(GROUPS, [id |-> n.ret[2], queue |-> <<>>,
                                                      soundfonts |-> <<>>, sent |-> <<>>])
                                 ELSE GROUPS
    /\ UNCHANGED <<SOUNDFONTS, soundfont_ID_COUNTER, arcs, fresh, threadVars, rtVars, seen>>
    /\ taken' = <<>>

XSynth_ChannelGroup_Remove(id) ==
    /\ ~aborted
    /\ Returns(<<"XSynth_ChannelGroup_Remove", id>>, Ok(0),
               SelectSeq(GROUPS, LAMBDA e : e.id = id))
    /\ GROUPS' = Retain(GROUPS, id)
    /\ arcs' = Arc_drop(arcs, TableRefs(SelectSeq(GROUPS, LAMBDA e : e.id = id)))
    /\ fresh' = [fresh EXCEPT !["groups"] = FALSE]
    /\ UNCHANGED <<ID_COUNTER, SOUNDFONTS, soundfont_ID_COUNTER, threadVars, rtVars, seen>>
    /\ taken' = <<>>

XSynth_ChannelGroup_RemoveAll ==
    /\ ~aborted
    /\ Returns(<<"XSynth_ChannelGroup_RemoveAll">>, Ok(0), GROUPS)
    /\ GROUPS' = Vec_clear(GROUPS)
    /\ arcs' = Arc_drop(arcs, TableRefs(GROUPS))
    /\ fresh' = [fresh EXCEPT !["groups"] = FALSE]
    /\ UNCHANGED <<ID_COUNTER, SOUNDFONTS, soundfont_ID_COUNTER, threadVars, rtVars, seen>>
    /\ taken' = <<>>

\* -------------------------------------------- soundfont.rs: soundfont registry
\* pathOk: the path is valid UTF-8; loadOk: SampleSoundfont::new returns Ok.
XSynth_Soundfont_LoadNew(pathOk, loadOk) ==
    /\ ~aborted
    /\ LET call == <<"XSynth_Soundfont_LoadNew", pathOk, loadOk>>
           n == soundfont_next_id(SOUNDFONTS, soundfont_ID_COUNTER)
       IN  IF ~pathOk
           THEN /\ Returns(call, Panic("Error parsing soundfont path"), <<>>)
                /\ UNCHANGED <<SOUNDFONTS, soundfont_ID_COUNTER, arcs>>
           ELSE IF ~loadOk
           THEN /\ Returns(call, Panic("Error loading soundfont"), <<>>)
                /\ UNCHANGED <<SOUNDFONTS, soundfont_ID_COUNTER, arcs>>
           ELSE /\ soundfont_ID_COUNTER' = n.counter
                /\ IF n.ret[1] = "ok"
                   THEN /\ \E a \in SfAddrs : arcs[a] = 0
                        /\ SOUNDFONTS' = Append(SOUNDFONTS,
                               [id |-> n.ret[2], soundfont |-> Arc_alloc(arcs)])
                        /\ arcs' = Arc_new(arcs)
                        /\ Returns(call, n.ret, <<>>)
                   ELSE /\ UNCHANGED <<SOUNDFONTS, arcs>>
                        /\ Returns(call,
                               Panic("Max number of soundfonts reached, cannot create more."),
                               <<>>)
    /\ UNCHANGED <<GROUPS, ID_COUNTER, fresh, threadVars, rtVars>>
    /\ seen' = Seen(SOUNDFONTS')
    /\ taken' = <<>>

XSynth_Soundfont_Remove(id) ==
    /\ ~aborted
    /\ Returns(<<"XSynth_Soundfont_Remove", id>>, Ok(0),
               SelectSeq(SOUNDFONTS, LAMBDA e : e.id = id))
    /\ SOUNDFONTS' = Retain(SOUNDFONTS, id)
    /\ arcs' = Arc_drop(arcs, SoundfontRefs(SelectSeq(SOUNDFONTS, LAMBDA e : e.id = id)))
    /\ fresh' = [fresh EXCEPT !["soundfonts"] = FALSE]
    /\ UNCHANGED <<GROUPS, ID_COUNTER, soundfont_ID_COUNTER, threadVars, rtVars>>
    /\ seen' = Seen(SOUNDFONTS')
    /\ taken' = <<>>

XSynth_Soundfont_RemoveAll ==
    /\ ~aborted
    /\ Returns(<<"XSynth_Soundfont_RemoveAll">>, Ok(0), SOUNDFONTS)
    /\ SOUNDFONTS' = Vec_clear(SOUNDFONTS)
    /\ arcs' = Arc_drop(arcs, SoundfontRefs(SOUNDFONTS))
    /\ fresh' = [fresh EXCEPT !["soundfonts"] = FALSE]
    /\ UNCHANGED <<GROUPS, ID_COUNTER, soundfont_ID_COUNTER, threadVars, rtVars>>
    /\ seen' = Seen(SOUNDFONTS')
    /\ taken' = <<>>

\* --------------------------------------- lib.rs: operations on a group id
\* find that stops at the first entry whatever its id: the fault C15 has to
\* notice.
Find_first_entry(table, id) == IF table # <<>> THEN 1 ELSE 0

\* GROUPS.iter().find(|g| g.id == id): the index of the first match, 0 for None
Find(table, id) ==
    IF id \in Ids(table) THEN Min({k \in 1..Len(table) : table[k].id = id}) ELSE 0

\* group.send_event(ev) with the newest event put first, so that the engine
\* takes it before the older ones: the fault C11 has to notice.
send_event_newest_first(groups, k, ev) == [groups EXCEPT ![k].queue = <<ev>> \o @]

\* group.send_event(ev)
send_event(groups, k, ev) == [groups EXCEPT ![k].queue = Append(@, ev)]

\* History: the call on entry k has made event ev.
Sent(groups, k, ev) == [groups EXCEPT ![k].sent = Append(@, ev)]

\* The engine takes the events of a queue in order.  A SetSoundfonts event
\* replaces the soundfonts the resource plays with: the old list is dropped,
\* the list of the event is moved in.
RECURSIVE Engine_run(_, _, _)
Engine_run(queue, soundfonts, heap) ==
    IF queue = <<>>
    THEN [soundfonts |-> soundfonts, heap |-> heap]
    ELSE IF Head(queue)[1] = "ChannelConfig" /\ Head(queue)[2][1] = "SetSoundfonts"
    THEN Engine_run(Tail(queue), Head(queue)[2][2], Arc_drop(heap, soundfonts))
    ELSE Engine_run(Tail(queue), soundfonts, heap)

NoGroup == Panic("Group does not exist.")
RegistryFrame ==
    UNCHANGED <<ID_COUNTER, SOUNDFONTS, soundfont_ID_COUNTER, fresh, threadVars, rtVars, seen>>

XSynth_ChannelGroup_VoiceCount(id) ==
    /\ ~aborted
    /\ Returns(<<"XSynth_ChannelGroup_VoiceCount", id>>,
               IF Find(GROUPS, id) = 0 THEN NoGroup ELSE Ok(0), <<>>)
    /\ UNCHANGED <<GROUPS, arcs>>
    /\ taken' = <<>>
    /\ RegistryFrame

XSynth_ChannelGroup_SendEvent(id, channel, event, params) ==
    /\ ~aborted
    /\ LET call == <<"XSynth_ChannelGroup_SendEvent", id, channel, event, params>>
           k == Find(GROUPS, id)
           ev == ChannelGroup_match_event(event, params)
       IN  IF k = 0
           THEN Returns(call, NoGroup, <<>>) /\ UNCHANGED GROUPS
           ELSE IF ev = <<"return">>
           THEN Returns(call, Ok(0), <<>>) /\ UNCHANGED GROUPS
           ELSE /\ Returns(call, Ok(0), <<>>)
                /\ GROUPS' = Sent(send_event(GROUPS, k, <<"Channel", channel, ev>>), k,
                                   <<"Channel", channel, ev>>)
    /\ UNCHANGED arcs
    /\ taken' = <<>>
    /\ RegistryFrame

\* read_samples renders after the engine has taken every queued event
XSynth_ChannelGroup_ReadSamples(id, bufferIsNull) ==
    /\ ~aborted
    /\ LET call == <<"XSynth_ChannelGroup_ReadSamples", id, bufferIsNull>>
           k == Find(GROUPS, id)
       IN  IF bufferIsNull
           THEN Returns(call, Ok(0), <<>>) /\ UNCHANGED <<GROUPS, arcs>> /\ taken' = <<>>
           ELSE IF k = 0
           THEN Returns(call, NoGroup, <<>>) /\ UNCHANGED <<GROUPS, arcs>> /\ taken' = <<>>
           ELSE LET run == Engine_run(GROUPS[k].queue, GROUPS[k].soundfonts, arcs)
                IN  /\ Returns(call, Ok(0), <<>>)
                    /\ taken' = GROUPS[k].queue
                    /\ GROUPS' = [GROUPS EXCEPT ![k].queue = <<>>, ![k].sent = <<>>,
                                                ![k].soundfonts = run.soundfonts]
                    /\ arcs' = run.heap
    /\ RegistryFrame

XSynth_ChannelGroup_GetStreamParams(id) ==
    /\ ~aborted
    /\ Returns(<<"XSynth_ChannelGroup_GetStreamParams", id>>,
               IF Find(GROUPS, id) = 0 THEN NoGroup ELSE Ok(0), <<>>)
    /\ UNCHANGED <<GROUPS, arcs>>
    /\ taken' = <<>>
    /\ RegistryFrame

XSynth_ChannelGroup_SetLayerCount(id, layers) ==
    /\ ~aborted
    /\ LET call == <<"XSynth_ChannelGroup_SetLayerCount", id, layers>>
           k == Find(GROUPS, id)
           ev == <<"ChannelConfig", <<"SetLayerCount", convert_layer_count(layers)>>>>
       IN  IF k = 0
           THEN Returns(call, NoGroup, <<>>) /\ UNCHANGED GROUPS
           ELSE /\ Returns(call, Ok(0), <<>>)
                /\ GROUPS' = Sent(send_event(GROUPS, k, ev), k, ev)
    /\ UNCHANGED arcs
    /\ taken' = <<>>
    /\ RegistryFrame

\* sf_ids: the array of soundfont ids, a sequence
XSynth_ChannelGroup_SetSoundfonts(id, sf_ids) ==
    /\ ~aborted
    /\ LET call == <<"XSynth_ChannelGroup_SetSoundfonts", id, sf_ids>>
           k == Find(GROUPS, id)
           \* sf.clone() of the first entry with each id, in the order of sf_ids
           sfvec == [j \in 1..Len(sf_ids) |->
                        SOUNDFONTS[Find(SOUNDFONTS, sf_ids[j])].soundfont]
           ev == <<"ChannelConfig", <<"SetSoundfonts", sfvec>>>>
       IN  IF k = 0
           THEN Returns(call, NoGroup, <<>>) /\ UNCHANGED <<GROUPS, arcs>>
           ELSE IF \E j \in 1..Len(sf_ids) : Find(SOUNDFONTS, sf_ids[j]) = 0
           THEN Returns(call, Panic("Soundfont does not exist."), <<>>)
                /\ UNCHANGED <<GROUPS, arcs>>
           ELSE /\ Returns(call, Ok(0), <<>>)
                /\ arcs' = Arc_clone(arcs, sfvec)
                /\ GROUPS' = Sent(send_event(GROUPS, k, ev), k, ev)
    /\ taken' = <<>>
    /\ RegistryFrame

XSynth_ChannelGroup_ClearSoundfonts(id) ==
    /\ ~aborted
    /\ LET call == <<"XSynth_ChannelGroup_ClearSoundfonts", id>>
           k == Find(GROUPS, id)
           ev == <<"ChannelConfig", <<"SetSoundfonts", <<>>>>>>
       IN  IF k = 0
           THEN Returns(call, NoGroup, <<>>) /\ UNCHANGED GROUPS
           ELSE /\ Returns(call, Ok(0), <<>>)
                /\ GROUPS' = Sent(send_event(GROUPS, k, ev), k, ev)
    /\ UNCHANGED arcs
    /\ taken' = <<>>
    /\ RegistryFrame

\* -------------------------------------------------------------------- Next
\* Group options: the default ones, no channel at all, a drum channel that is
\* no channel of the group, a channel count of the stream that is not
\* supported.
GroupOptionInputs ==
    { XSynth_GenDefault_GroupOptions,
      [XSynth_GenDefault_GroupOptions EXCEPT !.channels = 0, !.drum_channels = <<>>],
      [XSynth_GenDefault_GroupOptions EXCEPT !.drum_channels = <<16>>],
      [XSynth_GenDefault_GroupOptions EXCEPT !.audio_channels = 0] }

Next ==
    \/ \E options \in GroupOptionInputs, built \in BOOLEAN :
           XSynth_ChannelGroup_Create(options, built)
    \/ \E id \in 0..MaxArg : XSynth_ChannelGroup_Remove(id)
    \/ XSynth_ChannelGroup_RemoveAll
    \/ \E pathOk \in BOOLEAN, loadOk \in BOOLEAN : XSynth_Soundfont_LoadNew(pathOk, loadOk)
    \/ \E id \in 0..MaxArg : XSynth_Soundfont_Remove(id)
    \/ XSynth_Soundfont_RemoveAll

Spec == Init /\ [][Next]_vars

\* ------------------------------------------------------------ SpecFacade
\* The whole integer-id facade: the registries and every call that takes a
\* group id, with MaxGroups groups and MaxSoundfonts soundfonts created in all;
\* the calls are given the ids issued and one that is never issued.
\* The queue of the group with this id, if there is one, holds fewer than n
\* events.
GroupRoom(id, n) ==
    IF Find(GROUPS, id) = 0 THEN TRUE ELSE Len(GROUPS[Find(GROUPS, id)].queue) < n

EventInputs == {MIDI_EVENT_NOTEON, MIDI_EVENT_FINETUNE, UnknownEvent}
ParamInputs == {200 + 256 * 200}
SfIdInputs == {<<>>, <<0>>, <<1, 0>>, <<0, 0>>}

NextFacade ==
    \/ ID_COUNTER < MaxGroups /\ XSynth_ChannelGroup_Create(XSynth_GenDefault_GroupOptions, TRUE)
    \/ \E id \in 0..MaxGroups : XSynth_ChannelGroup_Remove(id)
    \/ XSynth_ChannelGroup_RemoveAll
    \/ /\ soundfont_ID_COUNTER < MaxSoundfonts
       /\ \E pathOk \in BOOLEAN, loadOk \in BOOLEAN : XSynth_Soundfont_LoadNew(pathOk, loadOk)
    \/ \E id \in 0..MaxSoundfonts : XSynth_Soundfont_Remove(id)
    \/ XSynth_Soundfont_RemoveAll
    \/ \E id \in 0..MaxGroups : XSynth_ChannelGroup_VoiceCount(id)
    \/ \E id \in 0..MaxGroups, event \in EventInputs, params \in ParamInputs :
           GroupRoom(id, MaxQueue) /\ XSynth_ChannelGroup_SendEvent(id, 0, event, params)
    \/ \E id \in 0..MaxGroups, bufferIsNull \in BOOLEAN :
           XSynth_ChannelGroup_ReadSamples(id, bufferIsNull)
    \/ \E id \in 0..MaxGroups : XSynth_ChannelGroup_GetStreamParams(id)
    \/ \E id \in 0..MaxGroups, layers \in {0, 4} :
           GroupRoom(id, MaxQueue) /\ XSynth_ChannelGroup_SetLayerCount(id, layers)
    \/ \E id \in 0..MaxGroups, sf_ids \in SfIdInputs :
           GroupRoom(id, MaxQueue) /\ XSynth_ChannelGroup_SetSoundfonts(id, sf_ids)
    \/ \E id \in 0..MaxGroups :
           GroupRoom(id, MaxQueue) /\ XSynth_ChannelGroup_ClearSoundfonts(id)

SpecFacade == Init /\ [][NextFacade]_vars

\* -------------------------------------------------------------- SpecConc
\* XSynth_Soundfont_LoadNew called by several threads at once, one call per
\* thread, after any single-threaded history of LoadNew and Remove calls.
\* Each step is one access to shared state: a SOUNDFONTS access under its
\* own read or write lock (soundfont.rs:19, 23, 137), or an unsynchronised
\* read or write of the static ID_COUNTER (soundfont.rs:21, 28, 29).
ThreadFrame == UNCHANGED <<GROUPS, ID_COUNTER, fresh, rtVars, taken>>

SingleThreaded == ~start.called

\* soundfont.rs:105-134: the call begins; the soundfont file has loaded
LoadNew_call(t) ==
    /\ ~aborted
    /\ pc[t] = "idle" /\ ret[t] = -1
    /\ pc' = [pc EXCEPT ![t] = "len"]
    /\ start' = IF start.called THEN start
                ELSE [called |-> TRUE, counter |-> soundfont_ID_COUNTER,
                      len |-> Len(SOUNDFONTS), byCounter |-> 0, ids |-> <<>>]
    /\ UNCHANGED <<SOUNDFONTS, arcs, soundfont_ID_COUNTER, callVars, local, ret>>
    /\ UNCHANGED seen
    /\ ThreadFrame

\* soundfont.rs:19-20 and 143-146: Err(()) makes LoadNew panic
next_id_len(t) ==
    /\ ~aborted
    /\ pc[t] = "len"
    /\ IF Len(SOUNDFONTS) >= MAX_ITEMS
       THEN /\ Returns(<<"XSynth_Soundfont_LoadNew", TRUE, TRUE>>,
                       Panic("Max number of soundfonts reached, cannot create more."), <<>>)
            /\ pc' = [pc EXCEPT ![t] = "panicked"]
       ELSE /\ pc' = [pc EXCEPT ![t] = "cmp"]
            /\ UNCHANGED callVars
    /\ UNCHANGED <<SOUNDFONTS, arcs, soundfont_ID_COUNTER, local, ret, start>>
    /\ UNCHANGED seen
    /\ ThreadFrame

\* soundfont.rs:21
next_id_cmp(t) ==
    /\ ~aborted
    /\ pc[t] = "cmp"
    /\ IF soundfont_ID_COUNTER >= MAX_ITEMS
       THEN /\ pc' = [pc EXCEPT ![t] = "scan"]
            /\ local' = [local EXCEPT ![t].i = 0]
       ELSE /\ pc' = [pc EXCEPT ![t] = "load"]
            /\ UNCHANGED local
    /\ UNCHANGED <<SOUNDFONTS, arcs, soundfont_ID_COUNTER, callVars, ret, start>>
    /\ UNCHANGED seen
    /\ ThreadFrame

\* soundfont.rs:22-26, one iteration; 34 and 143-146 when the range is used up
next_id_scan(t) ==
    /\ ~aborted
    /\ pc[t] = "scan"
    /\ IF local[t].i >= MAX_ITEMS
       THEN /\ Returns(<<"XSynth_Soundfont_LoadNew", TRUE, TRUE>>,
                       Panic("Max number of soundfonts reached, cannot create more."), <<>>)
            /\ pc' = [pc EXCEPT ![t] = "panicked"]
            /\ UNCHANGED local
       ELSE /\ UNCHANGED callVars
            /\ IF local[t].i \notin Ids(SOUNDFONTS)
               THEN /\ local' = [local EXCEPT ![t].id = local[t].i]
                    /\ pc' = [pc EXCEPT ![t] = "push"]
               ELSE /\ local' = [local EXCEPT ![t].i = @ + 1]
                    /\ UNCHANGED pc
    /\ UNCHANGED <<SOUNDFONTS, arcs, soundfont_ID_COUNTER, ret, start>>
    /\ UNCHANGED seen
    /\ ThreadFrame

\* soundfont.rs:28
next_id_load(t) ==
    /\ ~aborted
    /\ pc[t] = "load"
    /\ local' = [local EXCEPT ![t].id = soundfont_ID_COUNTER]
    /\ pc' = [pc EXCEPT ![t] = "store"]
    /\ start' = [start EXCEPT !.byCounter = @ + 1]
    /\ UNCHANGED <<SOUNDFONTS, arcs, soundfont_ID_COUNTER, callVars, ret>>
    /\ UNCHANGED seen
    /\ ThreadFrame

\* soundfont.rs:29: `ID_COUNTER += 1` on a static mut is a data race; a build
\* either stores the id it loaded plus one, or loads the counter again.
next_id_store(t) ==
    /\ ~aborted
    /\ pc[t] = "store"
    /\ \E v \in {local[t].id + 1, soundfont_ID_COUNTER + 1} : soundfont_ID_COUNTER' = v
    /\ pc' = [pc EXCEPT ![t] = "push"]
    /\ UNCHANGED <<SOUNDFONTS, arcs, callVars, local, ret, start>>
    /\ UNCHANGED seen
    /\ ThreadFrame

\* soundfont.rs:136-142
LoadNew_push(t) ==
    /\ ~aborted
    /\ pc[t] = "push"
    /\ \E a \in SfAddrs : arcs[a] = 0
    /\ SOUNDFONTS' = Append(SOUNDFONTS, [id |-> local[t].id, soundfont |-> Arc_alloc(arcs)])
    /\ arcs' = Arc_new(arcs)
    /\ ret' = [ret EXCEPT ![t] = local[t].id]
    /\ pc' = [pc EXCEPT ![t] = "done"]
    /\ UNCHANGED <<soundfont_ID_COUNTER, callVars, local, start>>
    /\ seen' = Seen(SOUNDFONTS')
    /\ ThreadFrame

NextConc ==
    \/ SingleThreaded /\ XSynth_Soundfont_LoadNew(TRUE, TRUE)
    \/ SingleThreaded /\ \E id \in 0..MaxArg : XSynth_Soundfont_Remove(id)
    \/ \E t \in Threads : LoadNew_call(t)
    \/ \E t \in Threads : next_id_len(t)
    \/ \E t \in Threads : next_id_cmp(t)
    \/ \E t \in Threads : next_id_scan(t)
    \/ \E t \in Threads : next_id_load(t)
    \/ \E t \in Threads : next_id_store(t)
    \/ \E t \in Threads : LoadNew_push(t)

SpecConc == Init /\ [][NextConc]_vars

\* ---------------------------------------------------------------- SpecRT
\* realtime.rs: the real-time synth behind a raw pointer handle.  A handle is
\* the address Box::into_raw gave; the caller keeps every handle it was given
\* and may pass any of them, or NULL, to any call.  Using the address of a
\* freed box is undefined behaviour: the call either crashes the process or
\* goes on with the freed memory.
RtFrame ==
    UNCHANGED <<GROUPS, ID_COUNTER, SOUNDFONTS, soundfont_ID_COUNTER, fresh, threadVars, seen>>

Crash == Panic("undefined behaviour: use of a freed RealtimeSynth")
NullUnwrap == Panic("called Option::unwrap() on a None value")

XSynth_Realtime_Create ==
    /\ ~aborted
    /\ \E a \in Addrs :
        /\ ~synths[a].live
        /\ synths' = [synths EXCEPT ![a] = [live |-> TRUE, queue |-> <<>>, soundfonts |-> <<>>,
                                            sent |-> <<>>, drops |-> 0]]
        /\ held' = held \cup {a}
        /\ Returns(<<"XSynth_Realtime_Create">>, Ok(a), <<>>)
    /\ UNCHANGED arcs
    /\ taken' = <<>>
    /\ RtFrame

\* (handle as *mut RealtimeSynth).as_mut().unwrap() followed by send_event(ev)
Realtime_send(call, handle, ev) ==
    IF handle = NULL
    THEN Returns(call, NullUnwrap, <<>>) /\ UNCHANGED synths
    ELSE IF synths[handle].live
    THEN /\ Returns(call, Ok(0), <<>>)
         /\ synths' = [synths EXCEPT ![handle].queue = Append(@, ev),
                                     ![handle].sent = Append(@, ev)]
    ELSE /\ \E r \in {Crash, Ok(0)} : Returns(call, r, <<>>)
         /\ UNCHANGED synths

XSynth_Realtime_SendEvent(handle, channel, event, params) ==
    /\ ~aborted
    /\ LET call == <<"XSynth_Realtime_SendEvent", handle, channel, event, params>>
           ev == convert_event(channel, event, params)
       IN  IF ev[1] = "panic"
           THEN Returns(call, ev, <<>>) /\ UNCHANGED synths
           ELSE Realtime_send(call, handle, ev)
    /\ UNCHANGED <<held, arcs>>
    /\ taken' = <<>>
    /\ RtFrame

XSynth_Realtime_GetStreamParams(handle) ==
    /\ ~aborted
    /\ LET call == <<"XSynth_Realtime_GetStreamParams", handle>>
       IN  IF handle = NULL
           THEN Returns(call, NullUnwrap, <<>>)
           ELSE IF synths[handle].live
           THEN Returns(call, Ok(0), <<>>)
           ELSE \E r \in {Crash, Ok(0)} : Returns(call, r, <<>>)
    /\ UNCHANGED <<rtVars, arcs>>
    /\ taken' = <<>>
    /\ RtFrame

XSynth_Realtime_SetLayerCount(handle, layers) ==
    /\ ~aborted
    /\ Realtime_send(<<"XSynth_Realtime_SetLayerCount", handle, layers>>, handle,
                     <<"ChannelConfig", <<"SetLayerCount", convert_layer_count(layers)>>>>)
    /\ UNCHANGED <<held, arcs>>
    /\ taken' = <<>>
    /\ RtFrame

XSynth_Realtime_ClearSoundfonts(handle) ==
    /\ ~aborted
    /\ Realtime_send(<<"XSynth_Realtime_ClearSoundfonts", handle>>, handle,
                     <<"ChannelConfig", <<"SetSoundfonts", <<>>>>>>)
    /\ UNCHANGED <<held, arcs>>
    /\ taken' = <<>>
    /\ RtFrame

\* sfids_to_vec that takes an empty id list to stand for every soundfont of the
\* registry: the fault C13 has to notice.
sfids_to_vec_empty_is_all(soundfonts, ids) ==
    IF \E j \in 1..Len(ids) : Find(soundfonts, ids[j]) = 0
    THEN Panic("Soundfont does not exist.")
    ELSE IF ids = <<>>
    THEN Ok(SoundfontRefs(soundfonts))
    ELSE Ok([j \in 1..Len(ids) |-> soundfonts[Find(soundfonts, ids[j])].soundfont])

\* sfids_to_vec that collects the soundfonts last id first: the fault C27 has
\* to notice.
sfids_to_vec_reversed(soundfonts, ids) ==
    IF \E j \in 1..Len(ids) : Find(soundfonts, ids[j]) = 0
    THEN Panic("Soundfont does not exist.")
    ELSE Ok([j \in 1..Len(ids) |->
                soundfonts[Find(soundfonts, ids[Len(ids) + 1 - j])].soundfont])

\* utils.rs: sfids_to_vec, the soundfonts of the ids in their order
sfids_to_vec(soundfonts, ids) ==
    IF \E j \in 1..Len(ids) : Find(soundfonts, ids[j]) = 0
    THEN Panic("Soundfont does not exist.")
    ELSE Ok([j \in 1..Len(ids) |-> soundfonts[Find(soundfonts, ids[j])].soundfont])

\* On a freed synth the call crashes, or goes on and the soundfont list it
\* made is dropped again.
XSynth_Realtime_SetSoundfonts(handle, sf_ids) ==
    /\ ~aborted
    /\ LET call == <<"XSynth_Realtime_SetSoundfonts", handle, sf_ids>>
           sfvec == sfids_to_vec(SOUNDFONTS, sf_ids)
       IN  IF sfvec[1] = "panic"
           THEN Returns(call, sfvec, <<>>) /\ UNCHANGED <<synths, arcs>>
           ELSE /\ Realtime_send(call, handle, <<"ChannelConfig", <<"SetSoundfonts", sfvec[2]>>>>)
                /\ arcs' = IF handle # NULL /\ synths[handle].live
                            THEN Arc_clone(arcs, sfvec[2]) ELSE arcs
    /\ UNCHANGED held
    /\ taken' = <<>>
    /\ RtFrame

\* The render thread of a live synth takes the oldest pending event.
RealtimeSynth_render(a) ==
    /\ ~aborted
    /\ synths[a].live /\ synths[a].queue # <<>>
    /\ LET run == Engine_run(<<Head(synths[a].queue)>>, synths[a].soundfonts, arcs)
       IN  /\ taken' = <<Head(synths[a].queue)>>
           /\ synths' = [synths EXCEPT ![a].queue = Tail(@), ![a].sent = Tail(@),
                                       ![a].soundfonts = run.soundfonts]
           /\ arcs' = run.heap
    /\ op' = <<"RealtimeSynth_render", a>>
    /\ UNCHANGED <<result, aborted, dropped, held>>
    /\ RtFrame

\* let _ = Box::from_raw(h): the box is dropped, whatever h points at
XSynth_Realtime_Drop(handle) ==
    /\ ~aborted
    /\ LET call == <<"XSynth_Realtime_Drop", handle>>
       IN  IF handle = NULL
           THEN Returns(call, Crash, <<>>) /\ UNCHANGED <<synths, arcs>>
           ELSE IF synths[handle].live
           THEN /\ Returns(call, Ok(0), <<handle>>)
                /\ synths' = [synths EXCEPT ![handle] =
                                  [live |-> FALSE, queue |-> <<>>, soundfonts |-> <<>>,
                                   sent |-> <<>>, drops |-> @.drops + 1]]
                /\ arcs' = Arc_drop(arcs, HeldRefs(synths[handle]))
           ELSE \* a second free of the same box
                \/ Returns(call, Crash, <<>>) /\ UNCHANGED <<synths, arcs>>
                \/ /\ synths[handle].drops < MaxDrops
                   /\ Returns(call, Ok(0), <<handle>>)
                   /\ synths' = [synths EXCEPT ![handle].drops = @ + 1]
                   /\ UNCHANGED arcs
    /\ UNCHANGED held
    /\ taken' = <<>>
    /\ RtFrame

LiveHandles == {a \in held : synths[a].live}

\* The queue of the synth behind this handle, if there is one, holds fewer
\* than n events.
SynthRoom(h, n) ==
    IF h = NULL THEN TRUE ELSE ~synths[h].live \/ Len(synths[h].queue) < n

NextRT ==
    \/ XSynth_Realtime_Create
    \/ \E h \in held \cup {NULL}, event \in EventInputs, params \in ParamInputs :
           SynthRoom(h, MaxQueue) /\ XSynth_Realtime_SendEvent(h, 0, event, params)
    \/ \E h \in held \cup {NULL} : XSynth_Realtime_GetStreamParams(h)
    \/ \E h \in held \cup {NULL}, layers \in {0, 4} :
           SynthRoom(h, MaxQueue) /\ XSynth_Realtime_SetLayerCount(h, layers)
    \/ \E h \in held \cup {NULL} : SynthRoom(h, MaxQueue) /\ XSynth_Realtime_ClearSoundfonts(h)
    \/ \E h \in held \cup {NULL}, sf_ids \in {<<>>, <<0>>} :
           SynthRoom(h, MaxQueue) /\ XSynth_Realtime_SetSoundfonts(h, sf_ids)
    \/ \E a \in Addrs : RealtimeSynth_render(a)
    \/ \E h \in held \cup {NULL} : XSynth_Realtime_Drop(h)

SpecRT == Init /\ [][NextRT]_vars

\* -------------------------------------------------------------- SpecSend
\* SendEvent called by several threads at once, one call per thread and each
\* on a handle of its own (a group id or a synth), after a single-threaded
\* history of Create and Remove calls.  Thread t sends NoteOn with key t on
\* channel t.  A step is one access to shared state: the search of GROUPS
\* (lib.rs:214-217), the send_event on the group found (lib.rs:241), the
\* send_event on the synth (realtime.rs:124-126).
SendFrame ==
    UNCHANGED <<ID_COUNTER, SOUNDFONTS, soundfont_ID_COUNTER, arcs, fresh, held, taken, seen>>

\* The handles other threads are calling with.
GroupTargets(t) ==
    {local[u].id : u \in {u \in Threads \ {t} : pc[u] \in {"find", "send", "sent"}}}
SynthTargets(t) ==
    {local[u].id : u \in {u \in Threads \ {t} : pc[u] \in {"rt_send", "rt_sent"}}}

SendEvent_begin(t, where, handle) ==
    /\ ~aborted
    /\ pc[t] = "idle"
    /\ pc' = [pc EXCEPT ![t] = where]
    /\ local' = [local EXCEPT ![t] = [id |-> handle, i |-> 0]]
    /\ start' = IF start.called THEN start
                ELSE [called |-> TRUE, counter |-> ID_COUNTER, len |-> Len(GROUPS),
                      byCounter |-> 0, ids |-> [k \in 1..Len(GROUPS) |-> GROUPS[k].id]]
    /\ UNCHANGED <<GROUPS, synths, callVars, ret>>
    /\ SendFrame

\* lib.rs:207-213
ChannelGroup_SendEvent_call(t, id) ==
    /\ id \notin GroupTargets(t)
    /\ SendEvent_begin(t, "find", id)

\* lib.rs:214-217
ChannelGroup_SendEvent_find(t) ==
    /\ ~aborted
    /\ pc[t] = "find"
    /\ IF Find(GROUPS, local[t].id) = 0
       THEN /\ Returns(<<"XSynth_ChannelGroup_SendEvent", local[t].id, t, MIDI_EVENT_NOTEON, t>>,
                       NoGroup, <<>>)
            /\ pc' = [pc EXCEPT ![t] = "panicked"]
            /\ UNCHANGED local
       ELSE /\ local' = [local EXCEPT ![t].i = Find(GROUPS, local[t].id)]
            /\ pc' = [pc EXCEPT ![t] = "send"]
            /\ UNCHANGED callVars
    /\ UNCHANGED <<GROUPS, synths, ret, start>>
    /\ SendFrame

\* lib.rs:219-241
ChannelGroup_SendEvent_send(t) ==
    /\ ~aborted
    /\ pc[t] = "send"
    /\ LET ev == <<"Channel", t, ChannelGroup_match_event(MIDI_EVENT_NOTEON, t)>>
       IN  GROUPS' = Sent(send_event(GROUPS, local[t].i, ev), local[t].i, ev)
    /\ pc' = [pc EXCEPT ![t] = "sent"]
    /\ UNCHANGED <<synths, callVars, local, ret, start>>
    /\ SendFrame

\* realtime.rs:117-123
Realtime_SendEvent_call(t, handle) ==
    /\ handle \notin SynthTargets(t)
    /\ SendEvent_begin(t, "rt_send", handle)

\* realtime.rs:124-126
Realtime_SendEvent_send(t) ==
    /\ ~aborted
    /\ pc[t] = "rt_send"
    /\ LET ev == convert_event(t, MIDI_EVENT_NOTEON, t)
       IN  synths' = [synths EXCEPT ![local[t].id].queue = Append(@, ev),
                                   ![local[t].id].sent = Append(@, ev)]
    /\ pc' = [pc EXCEPT ![t] = "rt_sent"]
    /\ UNCHANGED <<GROUPS, callVars, local, ret, start>>
    /\ SendFrame

NextSend ==
    \/ /\ SingleThreaded /\ ID_COUNTER < NumThreads
       /\ XSynth_ChannelGroup_Create(XSynth_GenDefault_GroupOptions, TRUE)
    \/ SingleThreaded /\ \E id \in Ids(GROUPS) : XSynth_ChannelGroup_Remove(id)
    \/ SingleThreaded /\ XSynth_Realtime_Create
    \/ \E t \in Threads, id \in Ids(GROUPS) : ChannelGroup_SendEvent_call(t, id)
    \/ \E t \in Threads : ChannelGroup_SendEvent_find(t)
    \/ \E t \in Threads : ChannelGroup_SendEvent_send(t)
    \/ \E t \in Threads, h \in LiveHandles : Realtime_SendEvent_call(t, h)
    \/ \E t \in Threads : Realtime_SendEvent_send(t)

SpecSend == Init /\ [][NextSend]_vars

\* -------------------------------------------------------------- SpecFlow
\* Events and soundfonts on their way to the engine: MaxGroups channel groups,
\* one real-time synth and MaxSoundfonts soundfonts, called with live handles;
\* a group's queue holds up to MaxFifo events until read_samples takes them,
\* the synth's render thread takes its events one by one.
NextFlow ==
    \/ ID_COUNTER < MaxGroups /\ XSynth_ChannelGroup_Create(XSynth_GenDefault_GroupOptions, TRUE)
    \/ \E id \in Ids(GROUPS) : XSynth_ChannelGroup_Remove(id)
    \/ GROUPS # <<>> /\ XSynth_ChannelGroup_RemoveAll
    \/ soundfont_ID_COUNTER < MaxSoundfonts /\ XSynth_Soundfont_LoadNew(TRUE, TRUE)
    \/ \E id \in Ids(SOUNDFONTS) : XSynth_Soundfont_Remove(id)
    \/ XSynth_Soundfont_RemoveAll
    \/ \E id \in Ids(GROUPS), params \in ParamInputs :
           GroupRoom(id, MaxFifo) /\ XSynth_ChannelGroup_SendEvent(id, 0, MIDI_EVENT_NOTEON, params)
    \/ \E id \in Ids(GROUPS) :
           GroupRoom(id, MaxFifo) /\ XSynth_ChannelGroup_SetLayerCount(id, 4)
    \/ \E id \in Ids(GROUPS), sf_ids \in SfIdInputs :
           GroupRoom(id, MaxFifo) /\ XSynth_ChannelGroup_SetSoundfonts(id, sf_ids)
    \/ \E id \in Ids(GROUPS) :
           GroupRoom(id, MaxFifo) /\ XSynth_ChannelGroup_ClearSoundfonts(id)
    \/ \E id \in Ids(GROUPS) : XSynth_ChannelGroup_ReadSamples(id, FALSE)
    \/ held = {} /\ XSynth_Realtime_Create
    \/ \E h \in LiveHandles, params \in ParamInputs :
           SynthRoom(h, MaxQueue) /\ XSynth_Realtime_SendEvent(h, 0, MIDI_EVENT_NOTEON, params)
    \/ \E h \in LiveHandles, sf_ids \in SfIdInputs :
           SynthRoom(h, MaxQueue) /\ XSynth_Realtime_SetSoundfonts(h, sf_ids)
    \/ \E h \in LiveHandles : SynthRoom(h, MaxQueue) /\ XSynth_Realtime_ClearSoundfonts(h)
    \/ \E a \in Addrs : RealtimeSynth_render(a)
    \/ \E h \in LiveHandles : XSynth_Realtime_Drop(h)

SpecFlow == Init /\ [][NextFlow]_vars

\* ----------------------------------------------------------- SpecResolve
\* SetSoundfonts of a group or of the real-time synth, called by a thread
\* while other threads call XSynth_Soundfont_LoadNew and
\* XSynth_Soundfont_Remove; one SetSoundfonts call per thread.  A step of the
\* call is one access to the soundfont registry, the find of one id: in
\* sfids_to_vec under a lock taken and released for that id alone
\* (utils.rs:66-68), in lib.rs:367-370 under no lock at all.  The registry
\* calls of the other threads are single steps, made under the write lock
\* (soundfont.rs:137, 166).
ResolveFrame ==
    UNCHANGED <<ID_COUNTER, SOUNDFONTS, soundfont_ID_COUNTER, fresh, held, ret, start, taken>>

ResolveInputs == {<<0>>, <<0, 1>>}

\* The call begins: nothing of the id list is resolved yet.
SetSoundfonts_begin(t, where, handle, sf_ids) ==
    /\ ~aborted
    /\ pc[t] = "idle"
    /\ pc' = [pc EXCEPT ![t] = "resolve"]
    /\ local' = [local EXCEPT ![t] = [id |-> handle, i |-> 0, where |-> where,
                                      ids |-> sf_ids, sfvec |-> <<>>]]
    /\ seen' = [seen EXCEPT ![t] = {SOUNDFONTS}]
    /\ UNCHANGED <<GROUPS, synths, arcs, callVars>>
    /\ ResolveFrame

\* lib.rs:351-362: the group is found, the id array is read
ChannelGroup_SetSoundfonts_call(t, id, sf_ids) == SetSoundfonts_begin(t, "group", id, sf_ids)

\* realtime.rs:202-209: XSynth_Realtime_SetSoundfonts reads the id array and calls
\* sfids_to_vec
Realtime_SetSoundfonts_call(t, handle, sf_ids) == SetSoundfonts_begin(t, "synth", handle, sf_ids)

\* utils.rs:65-74, lib.rs:366-373: one turn of the map over the ids; the
\* soundfont found is cloned into the list
sfids_to_vec_find(t) ==
    /\ ~aborted
    /\ pc[t] = "resolve"
    /\ local[t].i < Len(local[t].ids)
    /\ LET id == local[t].ids[local[t].i + 1]
           k == Find(SOUNDFONTS, id)
           call == <<IF local[t].where = "group" THEN "XSynth_ChannelGroup_SetSoundfonts"
                     ELSE "XSynth_Realtime_SetSoundfonts", local[t].id, local[t].ids>>
       IN  IF k = 0
           THEN /\ Returns(call, Panic("Soundfont does not exist."), <<>>)
                /\ pc' = [pc EXCEPT ![t] = "panicked"]
                /\ UNCHANGED <<local, arcs>>
           ELSE /\ local' = [local EXCEPT ![t].i = @ + 1,
                                          ![t].sfvec = Append(@, SOUNDFONTS[k].soundfont)]
                /\ arcs' = Arc_clone(arcs, <<SOUNDFONTS[k].soundfont>>)
                /\ UNCHANGED <<pc, callVars>>
    /\ UNCHANGED <<GROUPS, synths, seen>>
    /\ ResolveFrame

\* lib.rs:376-378
ChannelGroup_SetSoundfonts_send(t) ==
    /\ ~aborted
    /\ pc[t] = "resolve" /\ local[t].where = "group"
    /\ local[t].i = Len(local[t].ids)
    /\ LET k == Find(GROUPS, local[t].id)
           ev == <<"ChannelConfig", <<"SetSoundfonts", local[t].sfvec>>>>
       IN  GROUPS' = Sent(send_event(GROUPS, k, ev), k, ev)
    /\ Returns(<<"XSynth_ChannelGroup_SetSoundfonts", local[t].id, local[t].ids>>, Ok(0), <<>>)
    /\ pc' = [pc EXCEPT ![t] = "forwarded"]
    /\ UNCHANGED <<synths, arcs, local, seen>>
    /\ ResolveFrame

\* realtime.rs:210-213: send_event of the list sfids_to_vec returned
Realtime_SetSoundfonts_send(t) ==
    /\ ~aborted
    /\ pc[t] = "resolve" /\ local[t].where = "synth"
    /\ local[t].i = Len(local[t].ids)
    /\ LET ev == <<"ChannelConfig", <<"SetSoundfonts", local[t].sfvec>>>>
       IN  synths' = [synths EXCEPT ![local[t].id].queue = Append(@, ev),
                                   ![local[t].id].sent = Append(@, ev)]
    /\ Returns(<<"XSynth_Realtime_SetSoundfonts", local[t].id, local[t].ids>>, Ok(0), <<>>)
    /\ pc' = [pc EXCEPT ![t] = "forwarded"]
    /\ UNCHANGED <<GROUPS, arcs, local, seen>>
    /\ ResolveFrame

NextResolve ==
    \/ ID_COUNTER < MaxGroups /\ XSynth_ChannelGroup_Create(XSynth_GenDefault_GroupOptions, TRUE)
    \/ held = {} /\ XSynth_Realtime_Create
    \/ soundfont_ID_COUNTER < MaxSoundfonts /\ XSynth_Soundfont_LoadNew(TRUE, TRUE)
    \/ \E id \in Ids(SOUNDFONTS) : XSynth_Soundfont_Remove(id)
    \/ \E t \in Threads, id \in Ids(GROUPS), sf_ids \in ResolveInputs :
           ChannelGroup_SetSoundfonts_call(t, id, sf_ids)
    \/ \E t \in Threads, h \in LiveHandles, sf_ids \in ResolveInputs :
           Realtime_SetSoundfonts_call(t, h, sf_ids)
    \/ \E t \in Threads : sfids_to_vec_find(t)
    \/ \E t \in Threads : ChannelGroup_SetSoundfonts_send(t)
    \/ \E t \in Threads : Realtime_SetSoundfonts_send(t)

SpecResolve == Init /\ [][NextResolve]_vars

\* ------------------------------------------------------------- SpecCodec
\* The two event decoders and the stream-parameter conversions as functions:
\* the initial state holds an input, a step applies one of them to it.
\* params is a u16 (utils.rs:21); the c_uint of lib.rs:211 is given the same
\* words.  The sample rate is a c_uint (lib.rs:59) that the conversions pass
\* on as it is, the channel count a c_ushort (lib.rs:60).
U16_MAX == 65535

CodecEvents == DefinedEvents \cup {UnknownEvent}
PackedInputs ==
    ({"packed"} \X {0} \X CodecEvents \X (0..U16_MAX))
        \cup ({"packed"} \X {15} \X CodecEvents \X {0, 127 + 256 * 127, 200 + 256 * 200})
WireInputs == {"wire"} \X {0, 1, 44100, 48000, 192000} \X {0, 1, 2, 3, U16_MAX}

InitCodec ==
    /\ GROUPS = <<>>
    /\ ID_COUNTER = 0
    /\ SOUNDFONTS = <<>>
    /\ soundfont_ID_COUNTER = 0
    /\ op \in PackedInputs \cup WireInputs
    /\ result = Ok(0)
    /\ aborted = FALSE
    /\ dropped = <<>>
    /\ fresh = [r \in {"groups", "soundfonts"} |-> TRUE]
    /\ pc = [t \in Threads |-> "idle"]
    /\ local = [t \in Threads |-> [id |-> 0, i |-> 0]]
    /\ ret = [t \in Threads |-> -1]
    /\ start = [called |-> FALSE, counter |-> 0, len |-> 0, byCounter |-> 0, ids |-> <<>>]
    /\ synths = [a \in Addrs |-> [live |-> FALSE, queue |-> <<>>, soundfonts |-> <<>>,
                                  sent |-> <<>>, drops |-> 0]]
    /\ held = {}
    /\ arcs = [a \in SfAddrs |-> 0]
    /\ taken = <<>>
    /\ seen = [t \in Threads |-> {}]

CodecFrame ==
    UNCHANGED <<GROUPS, ID_COUNTER, SOUNDFONTS, soundfont_ID_COUNTER, arcs, fresh, threadVars,
                rtVars, taken, seen>>

\* utils.rs:21-61
convert_event_call ==
    /\ op[1] = "packed"
    /\ LET ev == convert_event(op[2], op[3], op[4])
       IN  Returns(<<"convert_event", op[2], op[3], op[4]>>,
                   IF ev[1] = "panic" THEN ev ELSE Ok(ev), <<>>)
    /\ CodecFrame

\* lib.rs:219-241: the event XSynth_ChannelGroup_SendEvent sends, if any
ChannelGroup_match_event_call ==
    /\ op[1] = "packed"
    /\ LET ev == ChannelGroup_match_event(op[3], op[4])
       IN  Returns(<<"ChannelGroup_match_event", op[2], op[3], op[4]>>,
                   IF ev = <<"return">> THEN Ok(ev) ELSE Ok(<<"Channel", op[2], ev>>), <<>>)
    /\ CodecFrame

\* convert_streamparams_to_c(&convert_streamparams_to_rust(wire))
convert_streamparams_call ==
    /\ op[1] = "wire"
    /\ \E into \in ChannelCount_from(op[3]) :
          Returns(<<"convert_streamparams", op[2], op[3]>>,
                  IF into[1] = "panic" THEN into
                  ELSE Ok(convert_streamparams_to_c(convert_streamparams_to_rust(
                              [sample_rate |-> op[2], audio_channels |-> op[3]], into[2]))),
                  <<>>)
    /\ CodecFrame

NextCodec ==
    \/ convert_event_call
    \/ ChannelGroup_match_event_call
    \/ convert_streamparams_call

SpecCodec == InitCodec /\ [][NextCodec]_vars

\* ================================================================== claims
NoDup(table) == \A k1, k2 \in 1..Len(table) : k1 # k2 => table[k1].id # table[k2].id

\* The ids of [0, max) that no entry of the table holds.
FreeIds(table, max) == {i \in 0..(max - 1) : i \notin Ids(table)}

CapacityPanic(r) ==
    r \in {Panic("Max number of groups reached, cannot create more."),
           Panic("Max number of soundfonts reached, cannot create more.")}

GroupCreateStep ==
    op' = <<"XSynth_ChannelGroup_Create", XSynth_GenDefault_GroupOptions, TRUE>>
SoundfontCreateStep == op' = <<"XSynth_Soundfont_LoadNew", TRUE, TRUE>>

\* C1: in every reachable state of the sequential facade, also after the id
\* counter has reached its maximum, no two live entries of a registry (channel
\* groups, soundfonts) hold the same identifier.
C1_UniqueIds == NoDup(GROUPS) /\ NoDup(SOUNDFONTS)

\* C2: when every thread's LoadNew has returned, whatever the interleaving of
\* their id-allocation and table-insertion steps, the returned identifiers
\* are pairwise distinct, every one of them is in the table, the table has
\* grown by one entry per call, and the id counter has advanced by exactly
\* the number of ids taken from the counter.
AllReturned == \A t \in Threads : pc[t] = "done"

C2_CreateLinearized ==
    AllReturned =>
        /\ \A t1, t2 \in Threads : t1 # t2 => ret[t1] # ret[t2]
        /\ \A t \in Threads : ret[t] \in Ids(SOUNDFONTS)
        /\ NoDup(SOUNDFONTS)
        /\ Len(SOUNDFONTS) = start.len + NumThreads
        /\ soundfont_ID_COUNTER = start.counter + start.byCounter

InOrder(table) == \A k \in 1..Len(table) : table[k].id = k - 1

C4_FreshIdsInOrder ==
    /\ fresh["groups"] =>
        /\ InOrder(GROUPS)
        /\ (op[1] = "XSynth_ChannelGroup_Create" /\ result[1] = "ok")
               => result[2] = Len(GROUPS) - 1
    /\ fresh["soundfonts"] =>
        /\ InOrder(SOUNDFONTS)
        /\ (op = <<"XSynth_Soundfont_LoadNew", TRUE, TRUE>> /\ result[1] = "ok")
               => result[2] = Len(SOUNDFONTS) - 1

\* C4 witness: MAX creates in a row have succeeded on both registries.
C4_Witness ==
    /\ fresh["groups"] /\ Len(GROUPS) = C_ULONG_MAX
    /\ fresh["soundfonts"] /\ Len(SOUNDFONTS) = MAX_ITEMS
    /\ op[1] = "XSynth_ChannelGroup_Create" /\ result = Ok(C_ULONG_MAX - 1)

\* C5 (as claimed): a Create that directly follows Remove(k) yields k or the
\* smallest free identifier, so before the counter advances further.
RemovedJustNow(name, table) == op[1] = name /\ dropped # <<>>

C6_SaturatedSmallestFree ==
    [][ /\ (GroupCreateStep /\ ID_COUNTER >= C_ULONG_MAX) =>
            IF FreeIds(GROUPS, C_ULONG_MAX) = {}
            THEN CapacityPanic(result')
            ELSE result' = Ok(Min(FreeIds(GROUPS, C_ULONG_MAX)))
        /\ (SoundfontCreateStep /\ soundfont_ID_COUNTER >= MAX_ITEMS) =>
            IF FreeIds(SOUNDFONTS, MAX_ITEMS) = {}
            THEN CapacityPanic(result')
            ELSE result' = Ok(Min(FreeIds(SOUNDFONTS, MAX_ITEMS)))
      ]_vars

\* C7: Remove of an identifier the registry does not hold changes neither the
\* table nor the id counter and raises no error.
C7_RemoveUnknownIsNoOp ==
    [][ /\ (op'[1] = "XSynth_ChannelGroup_Remove" /\ op'[2] \notin Ids(GROUPS)) =>
            /\ GROUPS' = GROUPS /\ ID_COUNTER' = ID_COUNTER
            /\ result'[1] = "ok" /\ ~aborted'
        /\ (op'[1] = "XSynth_Soundfont_Remove" /\ op'[2] \notin Ids(SOUNDFONTS)) =>
            /\ SOUNDFONTS' = SOUNDFONTS /\ soundfont_ID_COUNTER' = soundfont_ID_COUNTER
            /\ result'[1] = "ok" /\ ~aborted'
      ]_vars

\* C7 witness: a Remove of a never issued identifier, and of an identifier
\* removed before, on a registry that holds entries.
C7_Witness ==
    /\ op[1] = "XSynth_Soundfont_Remove"
    /\ op[2] >= soundfont_ID_COUNTER
    /\ Len(SOUNDFONTS) = 2
    /\ ~aborted
\* C8: every created resource is destroyed at most once: the first Drop of a
\* handle destroys the synth, a further Drop of the same handle destroys
\* nothing, changes nothing and does not bring the process down.
C8_DestroyedAtMostOnce ==
    /\ \A a \in Addrs : synths[a].drops <= 1
    /\ op[1] = "XSynth_Realtime_Drop" /\ op[2] # NULL => ~aborted

\* C10: sending an event whose kind is outside the defined set signals
\* InvalidEvent to the caller: nothing is enqueued on the synth and the
\* process is not aborted.
C10_UnknownEventSignalled ==
    [][ (/\ op'[1] = "XSynth_Realtime_SendEvent" /\ op'[4] \notin DefinedEvents
         /\ op'[2] # NULL /\ synths[op'[2]].live) =>
            /\ result' = <<"err", "InvalidEvent">>
            /\ ~aborted'
            /\ synths' = synths
      ]_vars

\* C9: a call that takes a group id and is given an id no group holds
\* returns a NotFound indicator, does not abort the process, and leaves the
\* registry as it was.
HandleCalls ==
    {"XSynth_ChannelGroup_SendEvent", "XSynth_ChannelGroup_ReadSamples",
     "XSynth_ChannelGroup_GetStreamParams", "XSynth_ChannelGroup_VoiceCount",
     "XSynth_ChannelGroup_SetLayerCount", "XSynth_ChannelGroup_SetSoundfonts",
     "XSynth_ChannelGroup_ClearSoundfonts"}

C9_UnknownHandleNotFound ==
    [][ (op'[1] \in HandleCalls /\ op'[2] \notin Ids(GROUPS)) =>
            /\ result' = <<"err", "NotFound">>
            /\ ~aborted'
            /\ GROUPS' = GROUPS /\ SOUNDFONTS' = SOUNDFONTS
            /\ ID_COUNTER' = ID_COUNTER /\ soundfont_ID_COUNTER' = soundfont_ID_COUNTER
      ]_vars

C12_StaleSoundfontNotFound ==
    [][ (/\ op'[1] = "XSynth_ChannelGroup_SetSoundfonts"
         /\ op'[2] \in Ids(GROUPS)
         /\ \E j \in 1..Len(op'[3]) : op'[3][j] \notin Ids(SOUNDFONTS)) =>
            /\ result' = <<"err", "NotFound">>
            /\ ~aborted'
            /\ GROUPS' = GROUPS /\ arcs' = arcs
      ]_vars

\* C13: on a live channel group, and on a live synth, ClearSoundfonts and
\* SetSoundfonts with an empty list are one and the same step: both return
\* normally, append the configuration event SetSoundfonts(<<>>) to the queue of
\* that resource, and change nothing else: not the registries, the id
\* counters, the soundfonts' counts or any other resource.
SetNoSoundfonts == <<"ChannelConfig", <<"SetSoundfonts", <<>>>>>>

GroupClearCalls(id) ==
    {<<"XSynth_ChannelGroup_ClearSoundfonts", id>>, <<"XSynth_ChannelGroup_SetSoundfonts", id, <<>>>>}

SynthClearCalls(h) ==
    {<<"XSynth_Realtime_ClearSoundfonts", h>>, <<"XSynth_Realtime_SetSoundfonts", h, <<>>>>}

C13_EmptySetIsClear ==
    [][ /\ \A id \in Ids(GROUPS) : op' \in GroupClearCalls(id) =>
              /\ result' = Ok(0) /\ ~aborted'
              /\ GROUPS' = [GROUPS EXCEPT
                                ![Find(GROUPS, id)].queue = Append(@, SetNoSoundfonts),
                                ![Find(GROUPS, id)].sent = Append(@, SetNoSoundfonts)]
              /\ UNCHANGED <<ID_COUNTER, SOUNDFONTS, soundfont_ID_COUNTER, arcs, synths>>
        /\ \A h \in LiveHandles : op' \in SynthClearCalls(h) =>
              /\ result' = Ok(0) /\ ~aborted'
              /\ synths' = [synths EXCEPT ![h].queue = Append(@, SetNoSoundfonts),
                                          ![h].sent = Append(@, SetNoSoundfonts)]
              /\ UNCHANGED <<ID_COUNTER, SOUNDFONTS, soundfont_ID_COUNTER, arcs, GROUPS>>
      ]_vars

\* C13 witness: SetSoundfonts with an empty list has returned on a synth that
\* plays with a soundfont, while the registry holds soundfonts.
C13_Witness ==
    /\ op[1] = "XSynth_Realtime_SetSoundfonts" /\ op[3] = <<>>
    /\ synths[op[2]].soundfonts # <<>>
    /\ synths[op[2]].queue = <<SetNoSoundfonts>>
    /\ SOUNDFONTS # <<>>

\* C14: a soundfont is alive exactly as long as somebody holds it: its strong
\* count is the number of registry entries, pending events and resources
\* (channel groups, synths) that hold it.  So Remove and RemoveAll on the
\* soundfont registry take away the registry's reference only, and the
\* soundfont is freed in no state in which the registry or a resource holds it.
RECURSIVE SynthRefs(_)
SynthRefs(n) == IF n = 0 THEN <<>> ELSE HeldRefs(synths[n]) \o SynthRefs(n - 1)

Holders(a) ==
    Count(SoundfontRefs(SOUNDFONTS), a) + Count(TableRefs(GROUPS), a)
        + Count(SynthRefs(NumAddrs), a)

C14_SoundfontLifetime == \A a \in SfAddrs : arcs[a] = Holders(a)

\* C14 witness: a soundfont has just been removed from the registry and is
\* alive, as a channel group plays with it.
C14_Witness ==
    /\ op[1] = "XSynth_Soundfont_Remove"
    /\ dropped # <<>>
    /\ arcs[dropped[1].soundfont] > 0
    /\ \E k \in 1..Len(GROUPS) : Count(GROUPS[k].soundfonts, dropped[1].soundfont) > 0

\* C15: while threads call SendEvent at the same time, each on a handle of its
\* own, the group registry stays what it was when the first call began (the
\* same ids in the same entries, the same id counter), no call fails, and the
\* events pending on a resource are those of the calls made with its handle
\* that have sent already: the event of thread t is on the resource thread t
\* named and nowhere else.
GroupEvent(t) == <<"Channel", t, <<"NoteOn", t, 0>>>>

C15_ConcurrentSendEvent ==
    start.called =>
        /\ [k \in 1..Len(GROUPS) |-> GROUPS[k].id] = start.ids
        /\ ID_COUNTER = start.counter
        /\ ~aborted
        /\ \A k \in 1..Len(GROUPS) :
               GROUPS[k].queue =
                   [j \in 1..Cardinality({t \in Threads : pc[t] = "sent"
                                                          /\ local[t].id = GROUPS[k].id})
                       |-> GroupEvent(CHOOSE t \in Threads :
                                         pc[t] = "sent" /\ local[t].id = GROUPS[k].id)]
        /\ \A a \in Addrs :
               synths[a].queue =
                   [j \in 1..Cardinality({t \in Threads : pc[t] = "rt_sent" /\ local[t].id = a})
                       |-> GroupEvent(CHOOSE t \in Threads : pc[t] = "rt_sent" /\ local[t].id = a)]

\* C15 witness: every thread has sent, one of them to a channel group that is
\* not the first entry of the registry.
C15_Witness ==
    /\ \A t \in Threads : pc[t] \in {"sent", "rt_sent"}
    /\ \E t \in Threads : pc[t] = "sent" /\ Find(GROUPS, local[t].id) > 1
    /\ \E t \in Threads : GROUPS[Find(GROUPS, local[t].id)].queue = <<GroupEvent(t)>>

\* The packed form of a typed event, by the layout table of the event codec.
\* PitchBendValue is kept as its numerator over 8192, FineTune as its
\* numerator over 4096.
Encode(typed) ==
    LET ev == typed[3]
        packed ==
            CASE ev[1] = "NoteOn" -> <<MIDI_EVENT_NOTEON, ev[2] + 256 * ev[3]>>
              [] ev[1] = "NoteOff" -> <<MIDI_EVENT_NOTEOFF, ev[2]>>
              [] ev[1] = "AllNotesOff" -> <<MIDI_EVENT_ALLNOTESOFF, 0>>
              [] ev[1] = "AllNotesKilled" -> <<MIDI_EVENT_ALLNOTESKILLED, 0>>
              [] ev[1] = "ResetControl" -> <<MIDI_EVENT_RESETCONTROL, 0>>
              [] ev[1] = "ProgramChange" -> <<MIDI_EVENT_PROGRAMCHANGE, ev[2]>>
              [] ev[1] = "Control" /\ ev[2] = "Raw" -> <<MIDI_EVENT_CONTROL, ev[3] + 256 * ev[4]>>
              [] ev[1] = "Control" /\ ev[2] = "PitchBendValue" -> <<MIDI_EVENT_PITCH, ev[3] + 8192>>
              [] ev[1] = "Control" /\ ev[2] = "FineTune" ->
                     <<MIDI_EVENT_FINETUNE, (ev[3] + 409600) \div 100>>
              [] ev[1] = "Control" /\ ev[2] = "CoarseTune" -> <<MIDI_EVENT_COARSETUNE, ev[3] + 64>>
    IN  <<typed[2], packed[1], packed[2]>>

\* The words that are the packed form of some typed event: operands of 0..127,
\* unused bits 0, and the ranges of the three 16-bit kinds.
IsPacked(event, params) ==
    CASE event \in {MIDI_EVENT_NOTEON, MIDI_EVENT_CONTROL} ->
             params % 256 <= 127 /\ params \div 256 <= 127
      [] event \in {MIDI_EVENT_NOTEOFF, MIDI_EVENT_PROGRAMCHANGE} -> params <= 127
      [] event \in {MIDI_EVENT_ALLNOTESOFF, MIDI_EVENT_ALLNOTESKILLED, MIDI_EVENT_RESETCONTROL} ->
             params = 0
      [] event = MIDI_EVENT_PITCH -> params <= 16384
      [] event = MIDI_EVENT_FINETUNE -> params <= 8192
      [] event = MIDI_EVENT_COARSETUNE -> params <= 128
      [] OTHER -> FALSE

\* C16: convert_event gives back the typed event of every packed form: when
\* the word decoded is the packed form of a typed event on that channel, the
\* event decoded is one whose packed form is that word, so it is that event
\* (key and velocity, program, controller and value of 0..127 as they were).
C16_DecodeRoundTrip ==
    (op[1] = "convert_event" /\ IsPacked(op[3], op[4])) =>
        /\ result[1] = "ok"
        /\ result[2][1] = "Channel"
        /\ Encode(result[2]) = <<op[2], op[3], op[4]>>

\* C16 witness: NoteOn with key 127 and velocity 127 on channel 15.
C16_Witness ==
    /\ op = <<"convert_event", 15, MIDI_EVENT_NOTEON, 127 + 256 * 127>>
    /\ result = Ok(<<"Channel", 15, <<"NoteOn", 127, 127>>>>)

\* C17: whichever decoder is used (convert_event, the match of
\* XSynth_ChannelGroup_SendEvent), ControlChange decodes to controller
\* min(low byte, 127) and value min(high byte, 127), ProgramChange to program
\* min(low byte, 127).
AtMost127(x) == IF x > 127 THEN 127 ELSE x

C17_ControlAndProgramClamped ==
    op[1] \in {"convert_event", "ChannelGroup_match_event"} =>
        /\ op[3] = MIDI_EVENT_CONTROL =>
               result = Ok(<<"Channel", op[2], <<"Control", "Raw", AtMost127(op[4] % 256),
                                                 AtMost127(op[4] \div 256)>>>>)
        /\ op[3] = MIDI_EVENT_PROGRAMCHANGE =>
               result = Ok(<<"Channel", op[2], <<"ProgramChange", AtMost127(op[4] % 256)>>>>)

\* C18: whichever decoder is used, PitchBend of the word x decodes to the
\* normalized value (min(x, 16384) - 8192) / 8192, here its numerator: it lies
\* in -8192..8192, is 0 for 8192, -8192 for 0, 8191 for 16383 and 8192 for
\* every x >= 16384.
C18_PitchBendNormalized ==
    (op[1] \in {"convert_event", "ChannelGroup_match_event"} /\ op[3] = MIDI_EVENT_PITCH) =>
        /\ result = Ok(<<"Channel", op[2],
                         <<"Control", "PitchBendValue",
                           (IF op[4] > 16384 THEN 16384 ELSE op[4]) - 8192>>>>)
        /\ result[2][3][3] \in -8192..8192
        /\ op[4] = 8192 => result[2][3][3] = 0
        /\ op[4] = 0 => result[2][3][3] = -8192
        /\ op[4] = 16383 => result[2][3][3] = 8191
        /\ op[4] >= 16384 => result[2][3][3] = 8192

\* C19: convert_event decodes FineTune of the word x to
\* (min(x, 8192) - 4096) / 4096 * 100 cents, here the numerator over 4096: it
\* lies between -100 and 100 cents, is 0 for 4096, -100 cents for 0 and 100
\* cents for 8192 and every larger x.
C19_FineTuneCents ==
    (op[1] = "convert_event" /\ op[3] = MIDI_EVENT_FINETUNE) =>
        /\ result = Ok(<<"Channel", op[2],
                         <<"Control", "FineTune",
                           ((IF op[4] > 8192 THEN 8192 ELSE op[4]) - 4096) * 100>>>>)
        /\ result[2][3][3] \in (-100 * 4096)..(100 * 4096)
        /\ op[4] = 4096 => result[2][3][3] = 0
        /\ op[4] = 0 => result[2][3][3] = -100 * 4096
        /\ op[4] >= 8192 => result[2][3][3] = 100 * 4096

\* C19 witness: the largest word decodes to 100 cents.
C19_Witness ==
    /\ op = <<"convert_event", 0, MIDI_EVENT_FINETUNE, U16_MAX>>
    /\ result = Ok(<<"Channel", 0, <<"Control", "FineTune", 100 * 4096>>>>)

\* C20: the conversion of wire stream parameters to the internal ones and
\* back gives the wire parameters again when audio_channels is 1 or 2, and
\* reports InvalidInput for every other channel count.
C20_StreamParamsInverse ==
    op[1] = "convert_streamparams" =>
        IF op[3] \in {1, 2}
        THEN result = Ok([sample_rate |-> op[2], audio_channels |-> op[3]])
        ELSE result = <<"err", "InvalidInput">>

\* A configuration Create has to refuse: no channel, or a drum channel that
\* is not a channel of the group.
Malformed(options) ==
    \/ options.channels = 0
    \/ \E j \in 1..Len(options.drum_channels) : options.drum_channels[j] >= options.channels

CreateErrors ==
    {<<"err", "InvalidInput">>, <<"err", "EngineError">>, <<"err", "CapacityExceeded">>}

\* C21: XSynth_ChannelGroup_Create with a malformed configuration fails with
\* InvalidInput; a Create (of a group or of a soundfont) that does not succeed
\* reports one of InvalidInput, EngineError, CapacityExceeded and leaves the
\* table and the id counter of its registry as they were.
C21_CreateAllOrNothing ==
    [][/\ op'[1] = "XSynth_ChannelGroup_Create" =>
            /\ Malformed(op'[2]) => result' = <<"err", "InvalidInput">>
            /\ result'[1] # "ok" =>
                   result' \in CreateErrors /\ GROUPS' = GROUPS /\ ID_COUNTER' = ID_COUNTER
       /\ (op'[1] = "XSynth_Soundfont_LoadNew" /\ result'[1] # "ok") =>
            /\ result' \in CreateErrors
            /\ SOUNDFONTS' = SOUNDFONTS
            /\ soundfont_ID_COUNTER' = soundfont_ID_COUNTER]_vars

\* C22: the real-time synth is a singleton: whatever XSynth_Realtime_Create
\* and XSynth_Realtime_Drop calls were made, at most one real-time synth is
\* live.
C22_RealtimeSingleton == Cardinality({a \in Addrs : synths[a].live}) <= 1

\* Table `after` is table `before` with one entry of identifier id taken out:
\* id is absent, one entry less, and every entry with another identifier is
\* still there, the same record (identifier and resource) as before.
DetachedExactly(before, after, id) ==
    /\ id \notin Ids(after)
    /\ Len(after) = Len(before) - 1
    /\ \A k \in 1..Len(before) :
           before[k].id # id => \E j \in 1..Len(after) : after[j] = before[k]

\* C23: Remove(id) of an identifier that is in the table detaches exactly that
\* entry: afterwards id is absent, every other entry is still present with
\* the same identifier and the same resource, and the id counter is as it was.
C23_RemoveDetachesOne ==
    [][/\ (op'[1] = "XSynth_ChannelGroup_Remove" /\ op'[2] \in Ids(GROUPS)) =>
            DetachedExactly(GROUPS, GROUPS', op'[2]) /\ ID_COUNTER' = ID_COUNTER
       /\ (op'[1] = "XSynth_Soundfont_Remove" /\ op'[2] \in Ids(SOUNDFONTS)) =>
            /\ DetachedExactly(SOUNDFONTS, SOUNDFONTS', op'[2])
            /\ soundfont_ID_COUNTER' = soundfont_ID_COUNTER]_vars

\* C24: the id counter of each registry never decreases and never exceeds the
\* maximum, whatever the call (a Create that succeeds or fails, Remove,
\* RemoveAll); a Create that finds the counter below the maximum returns the
\* counter's value and leaves the counter one higher, and every identifier of
\* the table lies below the counter, so that identifier was never issued
\* before.
C24_CounterMonotone ==
    [][/\ ID_COUNTER <= ID_COUNTER' /\ ID_COUNTER' <= C_ULONG_MAX
       /\ soundfont_ID_COUNTER <= soundfont_ID_COUNTER' /\ soundfont_ID_COUNTER' <= MAX_ITEMS
       /\ \A id \in Ids(GROUPS) : id < ID_COUNTER
       /\ \A id \in Ids(SOUNDFONTS) : id < soundfont_ID_COUNTER
       /\ (op'[1] = "XSynth_ChannelGroup_Create" /\ result'[1] = "ok"
              /\ ID_COUNTER < C_ULONG_MAX) =>
            result'[2] = ID_COUNTER /\ ID_COUNTER' = ID_COUNTER + 1
       /\ (op'[1] = "XSynth_Soundfont_LoadNew" /\ result'[1] = "ok"
              /\ soundfont_ID_COUNTER < MAX_ITEMS) =>
            result'[2] = soundfont_ID_COUNTER
                /\ soundfont_ID_COUNTER' = soundfont_ID_COUNTER + 1]_vars

\* C24 witness: after Remove or RemoveAll calls have taken the soundfonts 0
\* and 1 out of the table, LoadNew goes on from the counter: it returns 2.
C24_Witness ==
    /\ op[1] = "XSynth_Soundfont_LoadNew" /\ result = Ok(2)
    /\ ~fresh["soundfonts"]
    /\ Ids(SOUNDFONTS) = {2}
    /\ soundfont_ID_COUNTER = result[2] + 1

\* C25: immediately after RemoveAll the table holds no entry, the lookup of
\* every identifier finds nothing, and every resource that was in the table
\* has been dropped exactly once: the call dropped the entries of the table,
\* each once, and every soundfont has lost as many references as the dropped
\* entries held of it, no more.
C25_RemoveAllClears ==
    [][/\ op'[1] = "XSynth_ChannelGroup_RemoveAll" =>
            /\ GROUPS' = <<>>
            /\ \A id \in 0..MaxArg : Find(GROUPS', id) = 0
            /\ dropped' = GROUPS
            /\ \A a \in SfAddrs : arcs'[a] = arcs[a] - Count(TableRefs(GROUPS), a)
            /\ SOUNDFONTS' = SOUNDFONTS
       /\ op'[1] = "XSynth_Soundfont_RemoveAll" =>
            /\ SOUNDFONTS' = <<>>
            /\ \A id \in 0..MaxArg : Find(SOUNDFONTS', id) = 0
            /\ dropped' = SOUNDFONTS
            /\ \A a \in SfAddrs : arcs'[a] = arcs[a] - Count(SoundfontRefs(SOUNDFONTS), a)
            /\ GROUPS' = GROUPS]_vars

\* C25 witness: XSynth_Soundfont_RemoveAll has dropped two soundfonts, and one
\* of them lives on because a group still holds it.
C25_Witness ==
    /\ op[1] = "XSynth_Soundfont_RemoveAll"
    /\ Len(dropped) = 2
    /\ SOUNDFONTS = <<>>
    /\ \E k \in 1..Len(GROUPS) : \E a \in SfAddrs :
           Count(HeldRefs(GROUPS[k]), a) > 0 /\ arcs[a] > 0

\* C26: whichever decoder is used and whatever the 16-bit word, a decoded
\* NoteOn has key and velocity in 0..127 and a decoded NoteOff has its key in
\* 0..127.
C26_NoteOperandsInRange ==
    (op[1] \in {"convert_event", "ChannelGroup_match_event"}
        /\ result[1] = "ok" /\ result[2][1] = "Channel") =>
        /\ result[2][3][1] = "NoteOn" =>
               result[2][3][2] \in 0..127 /\ result[2][3][3] \in 0..127
        /\ result[2][3][1] = "NoteOff" => result[2][3][2] \in 0..127

\* The list is the resolution of the ids in the table: as long as ids, and its
\* i-th element is the soundfont of the entry registered under the i-th id.
Resolves(list, ids, table) ==
    /\ Len(list) = Len(ids)
    /\ \A i \in 1..Len(ids) :
           /\ ids[i] \in Ids(table)
           /\ \A j \in 1..Len(table) : table[j].id = ids[i] => list[i] = table[j].soundfont

\* The event SetSoundfonts has put last into this queue forwards the
\* resolution of the ids.
Forwarded(queue, ids, table) ==
    /\ queue # <<>>
    /\ queue[Len(queue)][1] = "ChannelConfig"
    /\ queue[Len(queue)][2][1] = "SetSoundfonts"
    /\ Resolves(queue[Len(queue)][2][2], ids, table)

\* C27: when the handle is live and every id of the list is registered,
\* SetSoundfonts (of a group, of the real-time synth) succeeds, the list it
\* forwards has the length of the id list and holds at place i the soundfont
\* registered under the i-th id, and the soundfont registry is as it was.
C27_ForwardedListInOrder ==
    [][/\ (op'[1] = "XSynth_ChannelGroup_SetSoundfonts" /\ op'[2] \in Ids(GROUPS)
              /\ \A i \in 1..Len(op'[3]) : op'[3][i] \in Ids(SOUNDFONTS)) =>
            /\ result' = Ok(0)
            /\ Forwarded(GROUPS'[Find(GROUPS', op'[2])].queue, op'[3], SOUNDFONTS)
            /\ SOUNDFONTS' = SOUNDFONTS
       /\ (op'[1] = "XSynth_Realtime_SetSoundfonts" /\ op'[2] \in LiveHandles
              /\ \A i \in 1..Len(op'[3]) : op'[3][i] \in Ids(SOUNDFONTS)) =>
            /\ result' = Ok(0)
            /\ Forwarded(synths'[op'[2]].queue, op'[3], SOUNDFONTS)
            /\ SOUNDFONTS' = SOUNDFONTS]_vars

\* C27 witness: the real-time synth was given the ids 1, 0 and its queue ends
\* with the two soundfonts, that of id 1 first; they are two soundfonts.
C27_Witness ==
    /\ op[1] = "XSynth_Realtime_SetSoundfonts" /\ op[3] = <<1, 0>> /\ result = Ok(0)
    /\ Forwarded(synths[op[2]].queue, <<1, 0>>, SOUNDFONTS)
    /\ SOUNDFONTS[Find(SOUNDFONTS, 0)].soundfont # SOUNDFONTS[Find(SOUNDFONTS, 1)].soundfont

\* C28: the soundfont list a SetSoundfonts call has forwarded is the
\* resolution of its whole id list in one table that the soundfont registry
\* held at some moment of the call, whatever LoadNew and Remove calls other
\* threads made meanwhile.
C28_ResolvedInOneState ==
    \A t \in Threads :
        pc[t] = "forwarded" =>
            \E table \in seen[t] : Resolves(local[t].sfvec, local[t].ids, table)

====
